---- MODULE Spec2Model ----
(***************************************************************************)
(* Model of the GSMS frontend synchronization core:                        *)
(*   - TraceService (trace.service.ts): historical buffer H (dummyBuffer), *)
(*     live buffer L (realtimeBuffer), merged buffer M (finalBuffer);      *)
(*   - WebSocketBaseService (websocket-base.service.ts): the channel with  *)
(*     its rxjs pipeline  socket$ | retry | tap | share | finalize;        *)
(*   - RequestService (request.service.ts) and the get_history requests of *)
(*     TraceControlComponent, with their answers on the response channel.  *)
(*                                                                         *)
(* Units.  Coordinates are integers counting 10^-(COORD_DECIMALS+1)        *)
(* degrees, so that normalizeCoord has something to round.  Timestamps are *)
(* strings; NullTs stands for JavaScript null.  Parsed timestamps are      *)
(* integers, with NaN the not-a-number value of an Invalid Date.           *)
(***************************************************************************)
EXTENDS Integers, Sequences, FiniteSets, Bags, TLC

VARIABLES
    dummyBuffer,      \* H: TraceService.dummyBuffer
    dummyHashSet,     \* identity index of H
    realtimeBuffer,   \* L: TraceService.realtimeBuffer
    realtimeHashSet,  \* identity index of L
    finalBuffer,      \* M: TraceService.finalBuffer, what getTrace() shows
    connectionStatus, \* value of WebSocketBaseService.connectionStatus$
    isClosed,         \* WebSocketBaseService.isClosed
    latestMessage,    \* value of WebSocketBaseService.latestMessage$
    pipes,            \* bag of the live pipelines set up by connect()
    returned,         \* what sendMessage returned, if the last step was that call
    observers,        \* per subscribed observer, what the last step delivered to it
    generated,        \* the identifiers crypto.randomUUID() has returned so far
    request,          \* the last sendRequest call: arguments, payload, result
    sentOrder,        \* request ids of the get_history requests, in the order sent
    pending,          \* those handed to the transport and not answered yet
    answer            \* the last message the response channel delivered

traceVars == <<dummyBuffer, dummyHashSet, realtimeBuffer, realtimeHashSet, finalBuffer>>

channelVars == <<connectionStatus, isClosed, latestMessage, pipes, returned, observers>>

requestVars == <<generated, request, sentOrder, pending, answer>>

vars == <<dummyBuffer, dummyHashSet, realtimeBuffer, realtimeHashSet, finalBuffer,
          connectionStatus, isClosed, latestMessage, pipes, returned, observers,
          generated, request, sentOrder, pending, answer>>

----------------------------------------------------------------------------
(* Bounds of the model *)

\* Longest get_history answer (number of records in msg.data).
MaxBatch == 2

\* Most pipelines alive at once: initialize() is not called while that many are.
MaxPipes == 2

\* Most get_history requests made by the trace control.
MaxRequests == 2

\* WebSocketBaseService.maxRetries.  The source sets 50; the model scales it
\* down, every guard and count below is written in terms of it.
maxRetries == 1

----------------------------------------------------------------------------
(* Timestamps *)

NullTs == "<null>"

\* Result of Date.getTime() on an Invalid Date.
NaN == -1

\* The timestamp strings a record may carry.
TsStrings == {NullTs, "garbage", "T10", "T20", "T30"}

\* DateUtcService.parseIsoToUtc(iso).getTime(): new Date(iso) of a string that
\* is no date is an Invalid Date, whose UTC fields and getTime() are NaN; no
\* exception is raised.
parseIsoToUtc(iso) ==
    CASE iso = "T10" -> 10
      [] iso = "T20" -> 20
      [] iso = "T30" -> 30
      [] OTHER -> NaN

\* TraceService.parseTimestamp: 0 for a missing timestamp; the catch branch is
\* never taken because parseIsoToUtc does not throw.
parseTimestamp(ts) ==
    IF ts = NullTs \/ ts = "" THEN 0 ELSE parseIsoToUtc(ts)

\* JavaScript a < b and a > b on numbers: false as soon as one side is NaN.
NumLt(a, b) == a # NaN /\ b # NaN /\ a < b
NumGt(a, b) == a # NaN /\ b # NaN /\ a > b

----------------------------------------------------------------------------
(* Coordinates, hash *)

\* One unit of the last kept decimal (COORD_DECIMALS = 6), in coordinate units.
CoordUnit == 10

\* Math.round(value * 10^6) / 10^6 (round half up), for value >= 0.
normalizeCoord(value) == ((value + (CoordUnit \div 2)) \div CoordUnit) * CoordUnit

\* Number.toFixed(6): the decimal string rounded to six places, represented by
\* the count of 10^-6 units.
toFixed(value) == (value + (CoordUnit \div 2)) \div CoordUnit

\* TraceService.hashPoint: `${lat.toFixed(6)}|${lon.toFixed(6)}|${ts ?? ''}`
hashPoint(point) ==
    << toFixed(point.Latitude), toFixed(point.Longitude),
       IF point.Timestamp = NullTs THEN "" ELSE point.Timestamp >>

\* The { Latitude, Longitude, Timestamp } literal built by addToDummy and
\* addToRealtime.
Normalized(point) ==
    [ Latitude  |-> normalizeCoord(point.Latitude),
      Longitude |-> normalizeCoord(point.Longitude),
      Timestamp |-> point.Timestamp ]

----------------------------------------------------------------------------
(* Sorted insertion *)

RECURSIVE BinarySearch(_, _, _, _)
\* The while loop of insertSorted; left and right are 0-based as in the code.
BinarySearch(buffer, ts, left, right) ==
    IF left < right
    THEN LET mid == (left + right) \div 2
         IN  IF NumLt(parseTimestamp(buffer[mid + 1].Timestamp), ts)
             THEN BinarySearch(buffer, ts, mid + 1, right)
             ELSE BinarySearch(buffer, ts, left, mid)
    ELSE left

\* buffer.splice(left, 0, point)
Splice(buffer, left, point) ==
    SubSeq(buffer, 1, left) \o <<point>> \o SubSeq(buffer, left + 1, Len(buffer))

\* TraceService.insertSorted: the buffer after the insertion.
insertSorted(buffer, point) ==
    Splice(buffer,
           BinarySearch(buffer, parseTimestamp(point.Timestamp), 0, Len(buffer)),
           point)

----------------------------------------------------------------------------
(* Merge *)

\* B_all.filter(p => parseTimestamp(p.Timestamp) > oldestDummyTs)
FilterNewer(B_all, oldestDummyTs) ==
    LET Newer(p) == NumGt(parseTimestamp(p.Timestamp), oldestDummyTs)
    IN  SelectSeq(B_all, Newer)

RECURSIVE Combine(_, _, _)
\* The for loop of rebuildFinalBuffer over [...A, ...B]: first occurrence of a
\* hash wins.
Combine(rest, combined, seen) ==
    IF rest = << >>
    THEN combined
    ELSE LET p == Head(rest)
             hash == hashPoint(p)
         IN  IF hash \notin seen
             THEN Combine(Tail(rest), Append(combined, p), seen \cup {hash})
             ELSE Combine(Tail(rest), combined, seen)

\* A rebuild that concatenates the two buffers as they are.
rebuildFinalBuffer_Concat(A, B_all) == A \o B_all

\* TraceService.rebuildFinalBuffer: the value set into finalBuffer.
rebuildFinalBuffer(A, B_all) ==
    LET B == IF Len(A) = 0
             THEN B_all
             ELSE FilterNewer(B_all, parseTimestamp(A[Len(A)].Timestamp))
    IN  Combine(A \o B, << >>, {})

\* The rebuild applied to the current buffers.
Merged == rebuildFinalBuffer(dummyBuffer, realtimeBuffer)

----------------------------------------------------------------------------
(* Inputs of the trace handlers *)

\* A record as it arrives: shape "ok" has numeric Latitude and Longitude,
\* "nonnumeric" fails the typeof test, "null" is a null or missing record.
Record(shape, lat, lon, ts) ==
    [ shape |-> shape, Latitude |-> lat, Longitude |-> lon, Timestamp |-> ts ]

\* Records of the live channel.  14 normalizes to the same sixth decimal as
\* 10; 20 is the next one.
GpsRecords ==
    { Record("ok", 10, 0, ts) : ts \in TsStrings }
        \cup { Record("ok", 14, 0, "T10"), Record("ok", 20, 0, "T10") }
        \cup { Record("nonnumeric", 0, 0, NullTs), Record("null", 0, 0, NullTs) }

\* Records of a get_history answer.
HistoryRecords ==
    { Record("ok", 10, 0, ts) : ts \in TsStrings \ {"T30"} }
        \cup { Record("nonnumeric", 0, 0, NullTs) }

Batches == UNION { [1..n -> HistoryRecords] : n \in 0..MaxBatch }

\* The get_history answers that hold every valid record once, in any order.
FullBatches ==
    LET Valid == { r \in HistoryRecords : r.shape = "ok" }
    IN  { b \in [1..Cardinality(Valid) -> Valid] :
            \A i, j \in DOMAIN b : i # j => b[i] # b[j] }

\* Messages of the response channel as the get_history subscription sees
\* them: null (the BehaviorSubject's initial value), an answer to another
\* action, a get_history answer whose data is no array, and one with an array.
HistoryMessages ==
    { [ isNull |-> TRUE, action |-> "none", isArray |-> FALSE, data |-> << >> ],
      [ isNull |-> FALSE, action |-> "get_history_bounds", isArray |-> FALSE, data |-> << >> ],
      [ isNull |-> FALSE, action |-> "get_history", isArray |-> FALSE, data |-> << >> ] }
        \cup { [ isNull |-> FALSE, action |-> "get_history", isArray |-> TRUE, data |-> b ] :
               b \in Batches }

----------------------------------------------------------------------------
(* TraceService operations, as functions of the buffers *)

\* addToDummy that stores the point without adding its hash to the index.
addToDummy_NoIndexAdd(st, raw, B_all) ==
    LET point == Normalized(raw)
        hash == hashPoint(point)
    IN  IF hash \in st.set
        THEN st
        ELSE LET buffer == insertSorted(st.buf, point)
             IN  [ buf |-> buffer,
                   set |-> st.set,
                   fin |-> rebuildFinalBuffer(buffer, B_all) ]

\* TraceService.addToDummy on the state st = [buf, set, fin] with live buffer B_all.
addToDummy(st, raw, B_all) ==
    LET point == Normalized(raw)
        hash == hashPoint(point)
    IN  IF hash \in st.set
        THEN st
        ELSE LET buffer == insertSorted(st.buf, point)
             IN  [ buf |-> buffer,
                   set |-> st.set \cup {hash},
                   fin |-> rebuildFinalBuffer(buffer, B_all) ]

RECURSIVE HistoryLoop(_, _, _)
\* for (const p of msg.data) { if (!p || typeof ... !== 'number') continue; addToDummy(...) }
HistoryLoop(st, data, B_all) ==
    IF data = << >>
    THEN st
    ELSE LET p == Head(data)
         IN  IF p.shape # "ok"
             THEN HistoryLoop(st, Tail(data), B_all)
             ELSE HistoryLoop(addToDummy(st, p, B_all), Tail(data), B_all)

RECURSIVE HistoryWrites(_, _, _)
\* The values the loop of the get_history handler sets into finalBuffer, in
\* order: one finalBuffer.set per addToDummy call that stores its point.
HistoryWrites(st, data, B_all) ==
    IF data = << >>
    THEN << >>
    ELSE LET p == Head(data)
         IN  IF p.shape # "ok"
             THEN HistoryWrites(st, Tail(data), B_all)
             ELSE LET after == addToDummy(st, p, B_all)
                  IN  (IF hashPoint(Normalized(p)) \in st.set THEN << >> ELSE << after.fin >>)
                          \o HistoryWrites(after, Tail(data), B_all)

\* A get_history handler that adds the batch to the historical buffer
\* without clearing it first.
HistoryHandler_Accumulating(st, msg, B_all) ==
    IF msg.isNull \/ msg.action # "get_history"
    THEN st
    ELSE IF ~msg.isArray
         THEN st
         ELSE HistoryLoop(st, msg.data, B_all)

\* The next callback of the get_history subscription, behind its filter.
\* dummyBuffer and dummyHashSet are cleared; finalBuffer is only written by
\* the addToDummy calls of the loop.
HistoryHandler(st, msg, B_all) ==
    IF msg.isNull \/ msg.action # "get_history"
    THEN st
    ELSE IF ~msg.isArray
         THEN st
         ELSE HistoryLoop([ buf |-> << >>, set |-> {}, fin |-> st.fin ], msg.data, B_all)

\* addToRealtime that inserts into a new array instead of a copy of L.
addToRealtime_FreshBuffer(st, raw, A) ==
    LET point == Normalized(raw)
        hash == hashPoint(point)
    IN  IF hash \in st.set
        THEN st
        ELSE LET buffer == insertSorted(<< >>, point)
             IN  [ buf |-> buffer,
                   set |-> st.set \cup {hash},
                   fin |-> rebuildFinalBuffer(A, buffer) ]

\* addToRealtime without the identity-index test.
addToRealtime_NoIndexTest(st, raw, A) ==
    LET point == Normalized(raw)
        hash == hashPoint(point)
        buffer == insertSorted(st.buf, point)
    IN  [ buf |-> buffer,
          set |-> st.set \cup {hash},
          fin |-> rebuildFinalBuffer(A, buffer) ]

\* TraceService.addToRealtime on the state st = [buf, set, fin] with historical buffer A.
addToRealtime(st, raw, A) ==
    LET point == Normalized(raw)
        hash == hashPoint(point)
    IN  IF hash \in st.set
        THEN st
        ELSE LET buffer == insertSorted(st.buf, point)
             IN  [ buf |-> buffer,
                   set |-> st.set \cup {hash},
                   fin |-> rebuildFinalBuffer(A, buffer) ]

\* The next callback of the onGPS subscription.
GpsHandler(st, data, A) ==
    IF data.shape = "null"
    THEN st
    ELSE IF data.shape = "ok" THEN addToRealtime(st, data, A) ELSE st

DummyState == [ buf |-> dummyBuffer, set |-> dummyHashSet, fin |-> finalBuffer ]
RealtimeState == [ buf |-> realtimeBuffer, set |-> realtimeHashSet, fin |-> finalBuffer ]

----------------------------------------------------------------------------
(* Actions of the trace service *)

TraceInit ==
    /\ dummyBuffer = << >>
    /\ dummyHashSet = {}
    /\ realtimeBuffer = << >>
    /\ realtimeHashSet = {}
    /\ finalBuffer = << >>

\* A message arrives on the response channel (replaceHistorical).
OnHistory ==
    \E msg \in HistoryMessages :
        \E st \in { HistoryHandler(DummyState, msg, realtimeBuffer) } :
            /\ dummyBuffer' = st.buf
            /\ dummyHashSet' = st.set
            /\ finalBuffer' = st.fin
            /\ UNCHANGED <<realtimeBuffer, realtimeHashSet>>
            /\ UNCHANGED channelVars
            /\ UNCHANGED requestVars

\* A get_history answer that holds every valid record arrives.
OnFullHistory ==
    \E b \in FullBatches :
        \E st \in { HistoryHandler(DummyState,
                        [ isNull |-> FALSE, action |-> "get_history",
                          isArray |-> TRUE, data |-> b ],
                        realtimeBuffer) } :
            /\ dummyBuffer' = st.buf
            /\ dummyHashSet' = st.set
            /\ finalBuffer' = st.fin
            /\ UNCHANGED <<realtimeBuffer, realtimeHashSet>>
            /\ UNCHANGED channelVars
            /\ UNCHANGED requestVars

\* A message arrives on the gps channel (appendLive).
OnGps ==
    \E data \in GpsRecords :
        \E st \in { GpsHandler(RealtimeState, data, dummyBuffer) } :
            /\ realtimeBuffer' = st.buf
            /\ realtimeHashSet' = st.set
            /\ finalBuffer' = st.fin
            /\ UNCHANGED <<dummyBuffer, dummyHashSet>>
            /\ UNCHANGED channelVars
            /\ UNCHANGED requestVars

\* A clearTrace that leaves the two identity indexes as they are.
clearTrace_KeepIndexes ==
    /\ dummyBuffer' = << >>
    /\ realtimeBuffer' = << >>
    /\ finalBuffer' = << >>
    /\ UNCHANGED <<dummyHashSet, realtimeHashSet>>
    /\ UNCHANGED channelVars
    /\ UNCHANGED requestVars

\* TraceService.clearTrace (reset).
clearTrace ==
    /\ dummyBuffer' = << >>
    /\ dummyHashSet' = {}
    /\ realtimeBuffer' = << >>
    /\ realtimeHashSet' = {}
    /\ finalBuffer' = << >>
    /\ UNCHANGED channelVars
    /\ UNCHANGED requestVars

TraceNext == OnHistory \/ OnGps \/ clearTrace

----------------------------------------------------------------------------
(* WebSocketBaseService: the channel *)

\* Configuration of the reconnection (milliseconds).
reconnectInterval == 5000
maxReconnectInterval == 60000

Min(a, b) == IF a < b THEN a ELSE b

\* The delay function given to retry(): rxjs calls it with the number of the
\* retry about to be made, the first one being 1.
RetryDelay(retryCount) ==
    Min(reconnectInterval * (2 ^ retryCount), maxReconnectInterval)

\* Messages a server may send; NoMessage is the null the BehaviorSubject
\* latestMessage$ starts with.
NoMessage == "null"
Messages == {"m1", "m2"}

\* What the deserializer (JSON.parse) hands to the pipeline for a frame: a
\* message, or null for the frame "null".
Inbound == Messages \cup {NoMessage}

(***************************************************************************)
(* Observers.  onMessage() and onConnectionStatus() hand out the two       *)
(* BehaviorSubjects latestMessage$ and connectionStatus$.  A notification  *)
(* is a record [kind, value] with kind "next", "error" or "complete".      *)
(* What one handler emits is e = [msgs, statuses]: the notifications it    *)
(* pushes into latestMessage$ and into connectionStatus$, in order.        *)
(***************************************************************************)
Observers == { <<"onMessage", "a">>, <<"onMessage", "b">>, <<"onConnectionStatus", "a">> }

NextOf(value) == [ kind |-> "next", value |-> value ]

ErrorOf(err) == [ kind |-> "error", value |-> err ]

\* Nothing emitted yet.
Emit0 == [ msgs |-> << >>, statuses |-> << >> ]

\* this.connectionStatus$.next(status)
StatusNext(e, status) == [e EXCEPT !.statuses = Append(@, NextOf(status))]

\* A next callback that pushes the message into latestMessage$ twice.
SubscribeNext_Twice(e, msg) ==
    [e EXCEPT !.msgs = @ \o << NextOf(msg), NextOf(msg) >>]

\* The next callback of connect()'s subscription: messages$.next(msg), which
\* no method hands out, and latestMessage$.next(msg).
SubscribeNext(e, msg) == [e EXCEPT !.msgs = Append(@, NextOf(msg))]

\* An error callback that forwards the error into latestMessage$.
SubscribeError_Forwarding(e) ==
    [StatusNext(e, "disconnected") EXCEPT !.msgs = Append(@, ErrorOf("err"))]

\* The error callback of connect()'s subscription: the state becomes
\* 'disconnected', the error is logged and goes no further.
SubscribeError(e) == StatusNext(e, "disconnected")

\* The notifications e reach every subscribed observer of their subject.
Deliver(e) ==
    [ o \in DOMAIN observers |->
        IF o[1] = "onMessage" THEN e.msgs ELSE e.statuses ]

\* What subscribing to onMessage() delivers at once: latestMessage$ is handed
\* out without its current value being replayed.
onMessage_NoReplay == << >>

\* What subscribing to onMessage() delivers at once: the current value of the
\* BehaviorSubject latestMessage$.
onMessage == << NextOf(latestMessage) >>

\* What subscribing to onConnectionStatus() delivers at once.
onConnectionStatus == << NextOf(connectionStatus) >>

(***************************************************************************)
(* One pipeline is what one call of connect() sets up: a WebSocketSubject  *)
(* and the subscription  socket$ | retry | tap | share | finalize  on it.  *)
(*   cur       this.socket$ is this pipeline's WebSocketSubject            *)
(*   attempt   the argument of connect()                                   *)
(*   soFar     the retry operator's count of errors seen                   *)
(*   sock      the subject's WebSocket: "none", "connecting" (readyState   *)
(*             0), "open" (1), "closing" (close() called on it, its close  *)
(*             event still to come)                                        *)
(*   timer     the retry operator's delay timer is pending                 *)
(*   delay     the delay that timer was started with                       *)
(*   queueDone complete() was called on the subject while it buffers       *)
(*             outgoing messages (its destination is the ReplaySubject)    *)
(***************************************************************************)
NewPipe(attempt) ==
    [ cur |-> TRUE, attempt |-> attempt, soFar |-> 0, sock |-> "connecting",
      timer |-> FALSE, delay |-> 0, queueDone |-> FALSE ]

Live == BagToSet(pipes)

Without(r) == pipes (-) SetToBag({r})

\* this.socket$ = <something else>: no pipeline of the bag is referenced any more.
Unreferenced(B) ==
    LET S == BagToSet(B)
        T == { [r EXCEPT !.cur = FALSE] : r \in S }
        Count(x) == IF x \in S THEN B[x] ELSE 0
    IN  [ t \in T |-> Count(t) + Count([t EXCEPT !.cur = TRUE]) ]

\* if (this.socket$): a WebSocketSubject is referenced.
HasSocket == \E r \in Live : r.cur

\* WebSocketBaseService.connect(attempt) with the other live pipelines B,
\* after the caller emitted e.
connect(attempt, B, e) ==
    /\ isClosed' = FALSE
    /\ connectionStatus' = "connecting"
    /\ pipes' = Unreferenced(B) (+) SetToBag({NewPipe(attempt)})
    /\ observers' = Deliver(StatusNext(e, "connecting"))

\* A finalize() that reconnects whatever attempt is.
Finalize_AlwaysReconnect(r, statusBefore, e) ==
    IF ~isClosed
    THEN connect(r.attempt + 1, Without(r), StatusNext(e, "disconnected"))
    ELSE /\ pipes' = Unreferenced(Without(r))
         /\ isClosed' = isClosed
         /\ connectionStatus' = statusBefore
         /\ observers' = Deliver(e)

\* The finalize() callback of pipeline r, run when its subscription ends;
\* statusBefore and e are the state and the emissions of what ran before it.
Finalize(r, statusBefore, e) ==
    IF ~isClosed /\ r.attempt < maxRetries
    THEN connect(r.attempt + 1, Without(r), StatusNext(e, "disconnected"))
    ELSE /\ pipes' = Unreferenced(Without(r))
         /\ isClosed' = isClosed
         /\ connectionStatus' = IF isClosed THEN statusBefore ELSE "disconnected"
         /\ observers' = Deliver(IF isClosed THEN e ELSE StatusNext(e, "disconnected"))

\* An error reaches the retry operator of pipeline r.  Below the count it
\* starts the delay timer and the subject is reset; past the count the error
\* goes to the subscriber's error callback and the pipeline is finalized.
RetryOnError(r) ==
    IF r.soFar < maxRetries
    THEN /\ pipes' = Without(r) (+) SetToBag({
                [r EXCEPT !.soFar = r.soFar + 1, !.sock = "none", !.timer = TRUE,
                          !.delay = RetryDelay(r.soFar + 1), !.queueDone = FALSE] })
         /\ UNCHANGED <<connectionStatus, isClosed>>
         /\ observers' = Deliver(Emit0)
    ELSE Finalize(r, "disconnected", SubscribeError(Emit0))

ChannelInit ==
    /\ connectionStatus = "connecting"
    /\ isClosed = FALSE
    /\ latestMessage = NoMessage
    /\ pipes = EmptyBag
    /\ returned = "none"
    /\ observers = << >>

\* WebSocketBaseService.initialize (open).
initialize ==
    /\ UNCHANGED traceVars
    /\ UNCHANGED requestVars
    /\ BagCardinality(pipes) < MaxPipes
    /\ connect(0, pipes, Emit0)
    /\ returned' = "none"
    /\ UNCHANGED latestMessage

\* A close() that also sets latestMessage$ back to null.
close_ClearingLatest ==
    /\ UNCHANGED traceVars
    /\ UNCHANGED requestVars
    /\ isClosed' = TRUE
    /\ connectionStatus' = "disconnected"
    /\ pipes' = Unreferenced(
                  IF HasSocket
                  THEN LET r == CHOOSE x \in Live : x.cur
                       IN  Without(r) (+) SetToBag({
                               IF r.sock = "open"
                               THEN [r EXCEPT !.sock = "closing"]
                               ELSE [r EXCEPT !.queueDone = TRUE] })
                  ELSE pipes)
    /\ observers' = Deliver(SubscribeNext(StatusNext(Emit0, "disconnected"), NoMessage))
    /\ returned' = "none"
    /\ latestMessage' = NoMessage

\* WebSocketBaseService.close: socket$?.complete() closes an open WebSocket;
\* on a subject that is still buffering it only completes the buffer.
close ==
    /\ UNCHANGED traceVars
    /\ UNCHANGED requestVars
    /\ isClosed' = TRUE
    /\ connectionStatus' = "disconnected"
    /\ pipes' = Unreferenced(
                  IF HasSocket
                  THEN LET r == CHOOSE x \in Live : x.cur
                       IN  Without(r) (+) SetToBag({
                               IF r.sock = "open"
                               THEN [r EXCEPT !.sock = "closing"]
                               ELSE [r EXCEPT !.queueDone = TRUE] })
                  ELSE pipes)
    /\ observers' = Deliver(StatusNext(Emit0, "disconnected"))
    /\ returned' = "none"
    /\ UNCHANGED latestMessage

\* WebSocketBaseService.sendMessage: the value returned.
sendMessage ==
    /\ UNCHANGED traceVars
    /\ UNCHANGED requestVars
    /\ returned' = IF HasSocket THEN "true" ELSE "false"
    /\ observers' = Deliver(Emit0)
    /\ UNCHANGED <<connectionStatus, isClosed, latestMessage, pipes>>

\* The WebSocket of pipeline r opens.  A subject completed while buffering
\* closes the socket at once.
SocketOpened ==
    \E r \in Live :
        /\ UNCHANGED traceVars
        /\ UNCHANGED requestVars
        /\ r.sock = "connecting"
        /\ pipes' = Without(r) (+) SetToBag({
               IF r.queueDone
               THEN [r EXCEPT !.sock = "closing", !.queueDone = FALSE]
               ELSE [r EXCEPT !.sock = "open"] })
        /\ observers' = Deliver(Emit0)
        /\ returned' = "none"
        /\ UNCHANGED <<connectionStatus, isClosed, latestMessage>>

\* A message arrives on the open WebSocket of pipeline r: tap, then next.
MessageReceived ==
    \E r \in Live, m \in Inbound :
        /\ UNCHANGED traceVars
        /\ UNCHANGED requestVars
        /\ r.sock = "open"
        /\ connectionStatus' = "connected"
        /\ latestMessage' = m
        /\ observers' = Deliver(SubscribeNext(StatusNext(Emit0, "connected"), m))
        /\ returned' = "none"
        /\ UNCHANGED <<isClosed, pipes>>

\* The WebSocket of pipeline r fails: an error event, or a close event that
\* is not clean.
TransportErrorOn(r) ==
    /\ UNCHANGED traceVars
    /\ UNCHANGED requestVars
    /\ r.sock \in {"connecting", "open", "closing"}
    /\ RetryOnError(r)
    /\ returned' = "none"
    /\ UNCHANGED latestMessage

TransportError == \E r \in Live : TransportErrorOn(r)

\* A transport attempt of pipeline r fails before its WebSocket opens.
AttemptFails == \E r \in Live : r.sock = "connecting" /\ TransportErrorOn(r)

\* The WebSocket of pipeline r reports a clean close: the stream completes.
TransportClosed ==
    \E r \in Live :
        /\ UNCHANGED traceVars
        /\ UNCHANGED requestVars
        /\ r.sock \in {"open", "closing"}
        /\ Finalize(r, connectionStatus, Emit0)
        /\ returned' = "none"
        /\ UNCHANGED latestMessage

\* The delay timer of pipeline r fires: retry resubscribes, the subject
\* creates a new WebSocket.
TimerFired ==
    \E r \in Live :
        /\ UNCHANGED traceVars
        /\ UNCHANGED requestVars
        /\ r.timer
        /\ pipes' = Without(r) (+) SetToBag({
               [r EXCEPT !.timer = FALSE, !.sock = "connecting"] })
        /\ observers' = Deliver(Emit0)
        /\ returned' = "none"
        /\ UNCHANGED <<connectionStatus, isClosed, latestMessage>>

\* An observer subscribes to onMessage() or onConnectionStatus(): the
\* BehaviorSubject delivers its current value to it at once.
subscribe ==
    \E o \in Observers \ DOMAIN observers :
        /\ UNCHANGED traceVars
        /\ UNCHANGED requestVars
        /\ observers' =
               [ x \in DOMAIN observers \cup {o} |->
                   IF x # o THEN << >>
                   ELSE IF o[1] = "onMessage" THEN onMessage ELSE onConnectionStatus ]
        /\ returned' = "none"
        /\ UNCHANGED <<connectionStatus, isClosed, latestMessage, pipes>>

\* An observer unsubscribes.
unsubscribe ==
    \E o \in DOMAIN observers :
        /\ UNCHANGED traceVars
        /\ UNCHANGED requestVars
        /\ observers' = [ x \in DOMAIN observers \ {o} |-> << >> ]
        /\ returned' = "none"
        /\ UNCHANGED <<connectionStatus, isClosed, latestMessage, pipes>>

ChannelNext ==
    \/ initialize
    \/ close
    \/ sendMessage
    \/ SocketOpened
    \/ MessageReceived
    \/ TransportError
    \/ TransportClosed
    \/ TimerFired

----------------------------------------------------------------------------
(* RequestService: sendRequest on the request channel *)

\* The request_id argument left out (undefined).
Omitted == "<undefined>"

\* Arguments of sendRequest: two of the RequestAction values; identifiers a
\* caller may supply, the empty string and one that looks like a generated
\* identifier among them.  params goes into the payload as given and is
\* left out of the model.
RequestActions == {"ping", "get_history"}
RequestIds == {"r1", "", "u1"}

\* The identifiers crypto.randomUUID() may return.
UUIDs == {"u1", "u2", "u3"}

\* crypto.randomUUID(): a random version-4 UUID, taken as one that it has not
\* returned before.
randomUUID == UUIDs \ generated

NoRequest == [ action |-> "none" ]

\* A sendRequest that generates an identifier whether one is given or not.
RequestId_AlwaysGenerated(request_id, uuid) == uuid

\* A sendRequest that returns the empty string when the channel references no
\* transport.
RequestId_EmptyWhenDropped(request_id, uuid) ==
    IF ~HasSocket THEN ""
    ELSE IF request_id = Omitted THEN uuid ELSE request_id

\* const id = request_id ?? crypto.randomUUID(), uuid being the value the
\* call of randomUUID returns when it is made.
RequestId(request_id, uuid) == IF request_id = Omitted THEN uuid ELSE request_id

\* The message msg of the response channel carrying the request_id id.
WithId(msg, id) == [ request_id |-> id ] @@ msg

\* The null that the response channel's latestMessage$ starts with.
NoAnswer ==
    WithId([ isNull |-> TRUE, action |-> "none", isArray |-> FALSE, data |-> << >> ],
           Omitted)

RequestInit ==
    /\ generated = {}
    /\ request = NoRequest
    /\ sentOrder = << >>
    /\ pending = {}
    /\ answer = NoAnswer

\* RequestService.sendRequest(action, params, request_id): builds the payload,
\* hands it to sendMessage (whose result it ignores) and returns the id.
sendRequest ==
    \E action \in RequestActions, request_id \in RequestIds \cup {Omitted} :
        \E uuid \in IF request_id = Omitted THEN randomUUID ELSE {Omitted} :
            LET id == RequestId(request_id, uuid)
                payload == [ action |-> action, request_id |-> id ]
            IN  /\ UNCHANGED traceVars
                /\ generated' = IF request_id = Omitted
                                THEN generated \cup {uuid} ELSE generated
                /\ request' = [ action |-> action, given |-> request_id,
                                payload |-> payload, sent |-> HasSocket,
                                result |-> id ]
                /\ returned' = IF HasSocket THEN "true" ELSE "false"
                /\ observers' = Deliver(Emit0)
                /\ UNCHANGED <<connectionStatus, isClosed, latestMessage, pipes>>
                /\ UNCHANGED <<sentOrder, pending, answer>>

\* TraceControlComponent.onDateRangeSelected with a valid range:
\* sendRequest('get_history', {start, end, deviceId}) with no request_id.  The
\* request will be answered if it was handed to the transport.
onDateRangeSelected ==
    \E uuid \in randomUUID :
        LET id == RequestId(Omitted, uuid)
        IN  /\ Len(sentOrder) < MaxRequests
            /\ UNCHANGED traceVars
            /\ generated' = generated \cup {uuid}
            /\ request' = [ action |-> "get_history", given |-> Omitted,
                            payload |-> [ action |-> "get_history", request_id |-> id ],
                            sent |-> HasSocket, result |-> id ]
            /\ sentOrder' = Append(sentOrder, id)
            /\ pending' = IF HasSocket THEN pending \cup {id} ELSE pending
            /\ returned' = IF HasSocket THEN "true" ELSE "false"
            /\ observers' = Deliver(Emit0)
            /\ UNCHANGED <<connectionStatus, isClosed, latestMessage, pipes, answer>>

\* The answers the backend may give to a get_history request: one whose data
\* is no array, and one with an array.
HistoryAnswers == { msg \in HistoryMessages : ~msg.isNull /\ msg.action = "get_history" }

\* The answer to one of the pending requests, whichever, arrives on the
\* response channel: it becomes the channel's latest message and the
\* get_history subscription of the trace service handles it; the handler
\* reads its action and its data, not its request_id.
AnswerArrives ==
    \E msg \in HistoryAnswers :
        \E st \in { HistoryHandler(DummyState, msg, realtimeBuffer) } :
            \E id \in pending :
                /\ dummyBuffer' = st.buf
                /\ dummyHashSet' = st.set
                /\ finalBuffer' = st.fin
                /\ UNCHANGED <<realtimeBuffer, realtimeHashSet>>
                /\ UNCHANGED channelVars
                /\ pending' = pending \ {id}
                /\ answer' = WithId(msg, id)
                /\ UNCHANGED <<generated, request, sentOrder>>

----------------------------------------------------------------------------
(* Specifications *)

Init == TraceInit /\ ChannelInit /\ RequestInit

\* The trace service fed by its two subscriptions.
TraceSpec == Init /\ [][TraceNext]_vars

\* The trace service fed by gps records and by get_history answers that hold
\* every valid record.
FullHistoryNext == OnFullHistory \/ OnGps \/ clearTrace

FullHistorySpec == Init /\ [][FullHistoryNext]_vars

\* One channel driven by its caller and its transport.
ChannelSpec == Init /\ [][ChannelNext]_vars

\* The channel against a server that cannot be reached: every transport
\* attempt fails before it opens.
FailingNext ==
    \/ initialize
    \/ close
    \/ sendMessage
    \/ AttemptFails
    \/ TimerFired

FailingSpec == Init /\ [][FailingNext]_vars

\* initialize() called while fewer than MaxPipes - 1 pipelines are alive.
initializeObserved ==
    /\ BagCardinality(pipes) < MaxPipes - 1
    /\ initialize

\* The channel and the observers of its two subjects; the caller keeps one
\* pipeline fewer alive than in ChannelSpec.
ObserverNext ==
    \/ subscribe
    \/ unsubscribe
    \/ initializeObserved
    \/ close
    \/ SocketOpened
    \/ MessageReceived
    \/ TransportError
    \/ TransportClosed
    \/ TimerFired

ObserverSpec == Init /\ [][ObserverNext]_vars

\* initialize() called while no pipeline is alive: the first call, or a call
\* after the channel has given up.
initializeIdle ==
    /\ pipes = EmptyBag
    /\ initialize

\* The channel against a server on which every transport attempt fails, by
\* an error or by a closure, possibly after the WebSocket opened; close() is
\* not called and no message arrives.  Every WebSocket ends in an error unless
\* it is closed first, and every delay timer fires.
CeilingNext ==
    \/ initializeIdle
    \/ subscribe
    \/ unsubscribe
    \/ SocketOpened
    \/ TransportError
    \/ TransportClosed
    \/ TimerFired

CeilingSpec ==
    Init /\ [][CeilingNext]_vars /\ WF_vars(TransportError) /\ WF_vars(TimerFired)

\* The request channel and its caller.
RequestNext ==
    \/ sendRequest
    \/ initializeObserved
    \/ SocketOpened
    \/ close

RequestSpec == Init /\ [][RequestNext]_vars

\* The trace control asking for history on the request channel, and the
\* answers arriving on the response channel in any order.
AnswerNext ==
    \/ initializeIdle
    \/ onDateRangeSelected
    \/ AnswerArrives

AnswerSpec == Init /\ [][AnswerNext]_vars

----------------------------------------------------------------------------
(* Notions of the specification used to state the properties *)

\* Parsed timestamp as the specification orders points: a missing or
\* unparseable timestamp is the minimum value.
SpecTime(p) ==
    LET t == parseTimestamp(p.Timestamp) IN IF t = NaN THEN 0 ELSE t

Range(seq) == { seq[i] : i \in DOMAIN seq }

Keys(seq) == { hashPoint(seq[i]) : i \in DOMAIN seq }

\* De-duplication by identity key, first occurrence wins.
Dedup(seq) ==
    LET First(i) == \A j \in 1..(i - 1) : hashPoint(seq[j]) # hashPoint(seq[i])
        F[i \in 0..Len(seq)] ==
            IF i = 0 THEN << >>
            ELSE IF First(i) THEN Append(F[i - 1], seq[i]) ELSE F[i - 1]
    IN  F[Len(seq)]

\* The live points strictly newer than the cutover given by the last point of A.
NewerThanCutover(A, B_all) ==
    LET Newer(p) == SpecTime(p) > SpecTime(A[Len(A)])
    IN  SelectSeq(B_all, Newer)

SortedByTime(seq) ==
    \A i, j \in DOMAIN seq : i < j => SpecTime(seq[i]) <= SpecTime(seq[j])

----------------------------------------------------------------------------
(* Properties of the trace service *)

\* C1: merge invariant.  After any sequence of replaceHistorical, appendLive
\* and reset, M = dedup(H ++ {p in L : timestamp(p) > timestamp(last(H))})
\* when H is non-empty and M = dedup(L) when H is empty, also after a
\* replaceHistorical whose batch is empty or holds no usable point.
C1_MergeInvariant ==
    finalBuffer =
        IF dummyBuffer # << >>
        THEN Dedup(dummyBuffer \o NewerThanCutover(dummyBuffer, realtimeBuffer))
        ELSE Dedup(realtimeBuffer)

\* C2: replaceHistorical is destructive.  In every step that replaces a
\* non-empty H by a set of points sharing no identity key with it (the live
\* buffer is untouched by the step), no point of the old H that the live
\* buffer does not hold appears in current() afterwards.
C2_ReplaceDestructive ==
    [][ ( /\ dummyBuffer # << >>
          /\ realtimeBuffer' = realtimeBuffer
          /\ Keys(dummyBuffer') \cap Keys(dummyBuffer) = {} )
        => \A p \in Range(dummyBuffer) :
               hashPoint(p) \notin realtimeHashSet => p \notin Range(finalBuffer') ]_vars

\* C6: after every appendLive the live buffer L is sorted ascending by parsed
\* timestamp, a missing or unparseable timestamp counting as the minimum.
C6_LiveSorted == SortedByTime(realtimeBuffer)

\* C7: appendLive is idempotent.  In every reachable state, for any two
\* records with the same identity key after normalization, appending the
\* second after the first leaves L, its index and M as the first left them.
C7_AppendIdempotent ==
    \A d1, d2 \in { d \in GpsRecords : d.shape = "ok" } :
        hashPoint(Normalized(d1)) = hashPoint(Normalized(d2)) =>
            LET once == GpsHandler(RealtimeState, d1, dummyBuffer)
            IN  GpsHandler(once, d2, dummyBuffer) = once

\* Witness of C7: a point was appended whose raw coordinates differ from the
\* stored ones, so a second record with the same key but other raw
\* coordinates exists, and H is non-empty so that M is not just L.
C7_Witness ==
    /\ dummyBuffer # << >>
    /\ Len(realtimeBuffer) >= 2
    /\ Normalized(Record("ok", 14, 0, "T10")).Latitude # 14
    /\ hashPoint(Normalized(Record("ok", 14, 0, "T10"))) \in realtimeHashSet
    /\ finalBuffer # dummyBuffer

\* C8: cutover.  Whenever H is non-empty, current() is H followed by exactly
\* the live points whose parsed timestamp is strictly greater than that of the
\* last point of H, in L order.
C8_Cutover ==
    dummyBuffer # << >> =>
        finalBuffer = dummyBuffer \o NewerThanCutover(dummyBuffer, realtimeBuffer)

\* C9: empty-H boundary.  Whenever H is empty, current() is L with duplicates
\* removed, no live point filtered out.
C9_EmptyHBoundary ==
    dummyBuffer = << >> => finalBuffer = Dedup(realtimeBuffer)

----------------------------------------------------------------------------
(* Properties of the channel *)

\* Transport attempts started by the step: pipelines whose WebSocket is being
\* created.
NewAttempt ==
    \E r \in BagToSet(pipes') :
        r.sock = "connecting" /\ CopiesIn(r, pipes') > CopiesIn(r, pipes)

\* C3: intentional close.  Between close() and the next initialize() the
\* connection state never becomes 'connecting' and no reconnection (no new
\* transport attempt) is started, whatever the transport and the timers do.
C3_IntentionalClose ==
    [][ (isClosed /\ isClosed') =>
            (connectionStatus' # "connecting" /\ ~NewAttempt) ]_vars

\* Transport attempts that have failed in the lineage of pipeline r (the
\* pipeline initialize() created and those finalize() replaced it by), when
\* no attempt ever opens: maxRetries + 1 per exhausted pipeline, soFar in r.
FailedAttempts(r) == r.attempt * (maxRetries + 1) + r.soFar

\* C4: retry exhaustion.  Against an unreachable server, once the first
\* attempt and maxRetries further attempts have failed, the state is
\* 'disconnected' and the channel has no transport and no pending timer.
C4_RetryExhaustion ==
    \A r \in Live :
        FailedAttempts(r) > maxRetries =>
            /\ connectionStatus = "disconnected"
            /\ r.sock = "none"
            /\ ~r.timer

\* The delay the specification gives for the n-th consecutive reconnection
\* attempt: min(base * 2^attempt, max), attempt = n - 1 starting at 0.
ClaimedDelay(n) ==
    Min(reconnectInterval * (2 ^ (n - 1)), maxReconnectInterval)

\* C5: reconnect backoff.  The delay waited before the n-th consecutive
\* reconnection attempt is min(5000 * 2^(n-1), 60000): 5000, 10000, 20000,
\* 40000, 60000, ..., and no delay exceeds the maximum.
C5_Backoff ==
    \A r \in Live :
        (r.timer /\ r.attempt = 0) =>
            /\ r.delay = ClaimedDelay(r.soFar)
            /\ r.delay <= maxReconnectInterval

\* C10: sendMessage returns true only while the state is 'connected', and
\* false in every other state.
C10_SendOnlyConnected ==
    returned # "none" => (returned = "true" <=> connectionStatus = "connected")

\* Pipelines of the bag B as initialize() creates them: connect(0), no error
\* seen yet, the first WebSocket still connecting.  No other step makes one.
FreshIn(B) ==
    LET S == { r \in BagToSet(B) :
                 r.attempt = 0 /\ r.soFar = 0 /\ r.sock = "connecting" }
    IN  BagCardinality([ r \in S |-> B[r] ])

\* C11: open() is idempotent.  No step taken while the channel is open (it
\* references a transport handle) creates an additional transport and
\* subscription as initialize() does, nor moves the state back to
\* 'connecting' by doing so.
C11_OpenIdempotent ==
    [][ HasSocket => FreshIn(pipes') <= FreshIn(pipes) ]_vars

----------------------------------------------------------------------------
(* Properties of the observers *)

\* The onMessage observers that subscribe in the step.
Attaching == { o \in DOMAIN observers' \ DOMAIN observers : o[1] = "onMessage" }

\* The onMessage observers that stay subscribed over the step.
Staying == { o \in DOMAIN observers' \cap DOMAIN observers : o[1] = "onMessage" }

\* C12: late-subscriber replay.  An observer that subscribes to the message
\* observable is delivered at once, and only, the value latestMessage$ holds,
\* null before any message; and that value is the message received last,
\* the one the observers subscribed at its arrival were delivered last.
C12_LateReplay ==
    [][ /\ \A o \in Attaching : observers'[o] = << NextOf(latestMessage) >>
        /\ \A o \in Staying :
               observers'[o] # << >> =>
                   observers'[o][Len(observers'[o])] = NextOf(latestMessage') ]_vars

\* Witness of C12: an observer has just subscribed after a message was
\* received and holds that message, while another subscribed earlier.
C12_Witness ==
    /\ latestMessage \in Messages
    /\ \E o \in DOMAIN observers :
           /\ o[1] = "onMessage"
           /\ observers[o] = << NextOf(latestMessage) >>
           /\ \E x \in DOMAIN observers : x # o /\ x[1] = "onMessage" /\ observers[x] = << >>

\* The step is the arrival of a message, as far as the state shows it: the
\* latest message changes, or an observer of the state that was subscribed
\* before is told 'connected' (only the tap in front of the next callback
\* emits it).
Arrival ==
    \/ latestMessage' # latestMessage
    \/ \E o \in DOMAIN observers' \cap DOMAIN observers :
           /\ o[1] = "onConnectionStatus"
           /\ \E i \in DOMAIN observers'[o] : observers'[o][i] = NextOf("connected")

\* C13: fan-out.  A message that arrives is delivered exactly once to every
\* observer subscribed at that time, and nothing else is delivered with it;
\* deliveries happen within the arrival, hence in arrival order.
C13_FanOut ==
    [][ /\ Arrival => \A o \in Staying : observers'[o] = << NextOf(latestMessage') >>
        /\ \A o \in Staying :
               observers'[o] # << >> =>
                   \A x \in Staying : observers'[x] = << NextOf(latestMessage') >> ]_vars

\* Witness of C13: two observers of the messages were both delivered the
\* message that arrived, after an earlier message.
C13_Witness ==
    /\ latestMessage = "m2"
    /\ observers = [ o \in { <<"onMessage", "a">>, <<"onMessage", "b">> } |->
                       << NextOf("m2") >> ]

----------------------------------------------------------------------------
(* Properties of the connection state *)

\* C14: connecting -> connected.  Whenever the transport the channel
\* references has been opened, the connection state is 'connected'.
C14_ConnectedWhenOpen ==
    \A r \in Live : (r.cur /\ r.sock = "open") => connectionStatus = "connected"

\* C15: connected -> disconnected.  The state is 'connected' only while a
\* transport of the channel is open: never while every transport is down,
\* a reconnection delay timer pending included.
C15_NeverConnectedWhileDown ==
    connectionStatus = "connected" => \E r \in Live : r.sock = "open"

\* C16: automatic reconnection.  Every transport attempt started while the
\* closure was not intentional (the reconnection after an unexpected close or
\* error, or the call of initialize()) leaves the state 'connecting'.
C16_AutoReconnect ==
    [][ (NewAttempt /\ ~isClosed /\ ~isClosed') =>
            connectionStatus' = "connecting" ]_vars

\* C17: the attempt counters (the argument of connect() that bounds the
\* reconnections, the retry operator's count that drives the delay) are zero
\* again once the state has become 'connected' through pipeline r.
C17_CounterReset ==
    \A r \in Live :
        (connectionStatus = "connected" /\ r.cur /\ r.sock = "open" /\ BagCardinality(pipes) = 1)
            => (r.soFar = 0 /\ r.attempt = 0)

----------------------------------------------------------------------------
(* Properties of reset and of the atomicity of the trace operations *)

\* The step empties a non-empty live buffer: only clearTrace does.
ResetStep == realtimeBuffer # << >> /\ realtimeBuffer' = << >>

\* C18: reset.  A clearTrace step leaves H, L, M and both identity indexes
\* empty together, and every point L or H held before it is accepted again:
\* appending it to the state after the reset stores it.
C18_Reset ==
    [][ ResetStep =>
          /\ dummyBuffer' = << >> /\ dummyHashSet' = {}
          /\ realtimeHashSet' = {} /\ finalBuffer' = << >>
          /\ \A p \in Range(realtimeBuffer) :
                 addToRealtime(RealtimeState', p, dummyBuffer')
                     = [ buf |-> <<p>>, set |-> {hashPoint(p)}, fin |-> <<p>> ]
          /\ \A p \in Range(dummyBuffer) :
                 addToDummy(DummyState', p, realtimeBuffer').buf = <<p>> ]_vars

\* Witness of C18: a state reset acts on, with H, L and M non-empty and M
\* holding a live point behind the historical ones.
C18_Witness ==
    /\ dummyBuffer # << >>
    /\ realtimeBuffer # << >>
    /\ Len(finalBuffer) > Len(dummyBuffer)

\* Number of times a value differs from the one before it in the sequence.
Changes(seq) == Cardinality({ i \in 1..(Len(seq) - 1) : seq[i] # seq[i + 1] })

\* C19: atomic mutations.  From every reachable state, one replaceHistorical
\* (a get_history answer with an array of n records) changes the value of M
\* at most once, and the value it leaves is the merge of the new H and L.
C19_AtomicReplace ==
    \A msg \in HistoryMessages :
        (~msg.isNull /\ msg.action = "get_history" /\ msg.isArray) =>
            LET set == HistoryWrites([ buf |-> << >>, set |-> {}, fin |-> finalBuffer ],
                                     msg.data, realtimeBuffer)
                after == HistoryHandler(DummyState, msg, realtimeBuffer)
            IN  /\ Changes(<<finalBuffer>> \o set) <= 1
                /\ after.fin = rebuildFinalBuffer(after.buf, realtimeBuffer)

----------------------------------------------------------------------------
(* Properties of the failure semantics *)

\* C20: transport errors never propagate.  Whatever the transport, the retry
\* operator and close() do, the observers of the messages and of the
\* connection state are only ever delivered values: no error notification and
\* no completion.
C20_NoErrorToObservers ==
    \A o \in DOMAIN observers :
        \A i \in DOMAIN observers[o] : observers[o][i].kind = "next"

\* Witness of C20: the retries of the last pipeline are exhausted (the error
\* callback and then finalize each emitted 'disconnected', no reconnection)
\* while observers of both subjects are subscribed.
C20_Witness ==
    /\ <<"onMessage", "a">> \in DOMAIN observers
    /\ <<"onConnectionStatus", "a">> \in DOMAIN observers
    /\ observers[<<"onConnectionStatus", "a">>]
           = << NextOf("disconnected"), NextOf("disconnected") >>
    /\ ~isClosed
    /\ pipes = EmptyBag

----------------------------------------------------------------------------
(* Properties of cancellation *)

\* C21: cancellation.  From close() until the next initialize(), no step
\* re-establishes the transport (no WebSocket is created, none opens) and no
\* message is delivered: the latest message stays and the observers of the
\* messages get nothing.
C21_Cancellation ==
    [][ (isClosed /\ isClosed') =>
            /\ ~NewAttempt
            /\ \A r \in BagToSet(pipes') :
                   r.sock = "open" => CopiesIn(r, pipes') <= CopiesIn(r, pipes)
            /\ latestMessage' = latestMessage
            /\ \A o \in Staying : observers'[o] = << >> ]_vars

----------------------------------------------------------------------------
(* Properties of the request channel *)

\* C22: request correlation.  The payload of a sendRequest carries the
\* identifier the call returns; it is the caller's request_id when one was
\* given; when none was given it is an identifier generated by this call,
\* distinct from every identifier generated before.
C22_RequestCorrelation ==
    /\ [](request # NoRequest =>
            /\ request.payload.request_id = request.result
            /\ request.payload.action = request.action
            /\ request.given # Omitted => request.result = request.given
            /\ request.given = Omitted => request.result \in generated)
    /\ [][ /\ generated \subseteq generated'
           /\ request'.action # "none" /\ request'.given = Omitted /\ request' # request
                  => /\ request'.result \notin generated
                     /\ generated' = generated \cup {request'.result} ]_vars

\* Witness of C22: a request without request_id was sent on an open channel
\* after another one had a generated identifier.
C22_Witness ==
    /\ request # NoRequest
    /\ request.given = Omitted
    /\ request.sent
    /\ generated = {"u1", request.result}
    /\ request.result # "u1"

----------------------------------------------------------------------------
(* Properties of the merged buffer *)

\* C23: no duplicate keys.  In every reachable state no two positions of
\* current() hold points with the same identity key.
C23_NoDuplicateKeys ==
    \A i, j \in DOMAIN finalBuffer :
        i # j => hashPoint(finalBuffer[i]) # hashPoint(finalBuffer[j])

\* Witness of C23: a point with the same key is held by H and by L (it
\* arrived on both sources), next to live points that M takes from L.
C23_Witness ==
    /\ Keys(dummyBuffer) \cap Keys(realtimeBuffer) # {}
    /\ Len(finalBuffer) > Len(dummyBuffer)
    /\ dummyBuffer # << >>

\* C24: M ordered.  In every reachable state current() is ordered ascending
\* by parsed timestamp, a missing or unparseable timestamp counting as the
\* minimum.
C24_MergedSorted == SortedByTime(finalBuffer)

----------------------------------------------------------------------------
(* Properties of the live buffer *)

\* The step leaves all five buffers and indexes empty, as reset does.
AllCleared ==
    /\ dummyBuffer' = << >> /\ dummyHashSet' = {}
    /\ realtimeBuffer' = << >> /\ realtimeHashSet' = {}
    /\ finalBuffer' = << >>

\* C25: L grows monotonically.  Every step other than a reset keeps each
\* point of L and each key of its index and adds at most one point; a step
\* that changes H (replaceHistorical) leaves L and its index as they were.
C25_LiveMonotone ==
    [][ ~AllCleared =>
          /\ Range(realtimeBuffer) \subseteq Range(realtimeBuffer')
          /\ realtimeHashSet \subseteq realtimeHashSet'
          /\ Len(realtimeBuffer') <= Len(realtimeBuffer) + 1
          /\ Cardinality(Range(realtimeBuffer')) = Len(realtimeBuffer')
          /\ (dummyBuffer' # dummyBuffer \/ dummyHashSet' # dummyHashSet) =>
                 (realtimeBuffer' = realtimeBuffer /\ realtimeHashSet' = realtimeHashSet) ]_vars

\* Witness of C25: H holds a batch of two points, L has grown to two points
\* or more, and L keeps a point that M, cut over at H, does not show.
C25_Witness ==
    /\ Len(dummyBuffer) = 2
    /\ Len(realtimeBuffer) >= 2
    /\ \E p \in Range(realtimeBuffer) : p \notin Range(finalBuffer)

\* The timestamp of p is missing or unparseable.
NoTime(p) == p.Timestamp = NullTs \/ parseIsoToUtc(p.Timestamp) = NaN

\* C26: live points without a usable timestamp.  In every reachable state
\* such a point of L stands before every point of L that has a timestamp; it
\* is not in current() when H is non-empty (unless H holds its key), and it
\* is in current() when H is empty.
C26_MissingTimestampPlacement ==
    \A i \in DOMAIN realtimeBuffer :
        NoTime(realtimeBuffer[i]) =>
            /\ \A j \in 1..(i - 1) : NoTime(realtimeBuffer[j])
            /\ (dummyBuffer # << >> /\ hashPoint(realtimeBuffer[i]) \notin Keys(dummyBuffer))
                   => realtimeBuffer[i] \notin Range(finalBuffer)
            /\ dummyBuffer = << >> => realtimeBuffer[i] \in Range(finalBuffer)

----------------------------------------------------------------------------
(* Properties of replaceHistorical *)

\* The records of a batch that pass the handler's test, normalized.
ValidPoints(data) ==
    LET Ok(p) == p.shape = "ok"
        ok == SelectSeq(data, Ok)
    IN  [ i \in DOMAIN ok |-> Normalized(ok[i]) ]

\* The get_history answers that carry an array.
ArrayAnswers ==
    { msg \in HistoryMessages : ~msg.isNull /\ msg.action = "get_history" /\ msg.isArray }

\* C27: result of replaceHistorical.  From every reachable state, after a
\* get_history answer H holds exactly the first occurrence of each identity
\* key of the valid records of the batch, ordered ascending by parsed
\* timestamp (missing or unparseable as minimum), its index holds exactly
\* their keys, and nothing of the earlier H remains.
C27_ReplaceResult ==
    \A msg \in ArrayAnswers :
        LET after == HistoryHandler(DummyState, msg, realtimeBuffer)
        IN  /\ Range(after.buf) = Range(Dedup(ValidPoints(msg.data)))
            /\ Len(after.buf) = Len(Dedup(ValidPoints(msg.data)))
            /\ after.set = Keys(ValidPoints(msg.data))
            /\ SortedByTime(after.buf)

\* The parsed timestamp of the last point of a non-empty buffer, as the
\* specification defines the cutover.
Cutover(A) == SpecTime(A[Len(A)])

\* C28: un-covering.  In every step that replaces H by a non-empty H whose
\* cutover is earlier than before (L untouched by the step), every live point
\* strictly newer than the new cutover is in current() afterwards, those the
\* previous H kept out included.
C28_Uncovering ==
    [][ ( /\ dummyBuffer # << >> /\ dummyBuffer' # << >>
          /\ dummyBuffer' # dummyBuffer
          /\ Cutover(dummyBuffer') < Cutover(dummyBuffer) )
        => \A p \in Range(realtimeBuffer') :
               SpecTime(p) > Cutover(dummyBuffer') => p \in Range(finalBuffer') ]_vars

----------------------------------------------------------------------------
(* Properties of malformed input *)

\* C29: malformed inbound messages have no effect.  A null message (the
\* step leaves null as the latest message) does not change the connection
\* state: no such step moves it to 'connected'.
C29_MalformedDropped ==
    [][ latestMessage' = NoMessage =>
            (connectionStatus' = "connected" => connectionStatus = "connected") ]_vars

----------------------------------------------------------------------------
(* Properties of the attempt ceiling *)

\* The channel has come to rest: no pipeline (no transport handle, no
\* WebSocket, no pending timer) and the state 'disconnected'.
Quiescent ==
    /\ pipes = EmptyBag
    /\ ~HasSocket
    /\ connectionStatus = "disconnected"

\* C30: hard attempt ceiling.  When every transport attempt fails and close()
\* is not called, the counters of a pipeline never pass maxRetries (so that
\* at most (maxRetries + 1)^2 attempts are made after one initialize()), and
\* the channel eventually comes to rest in the state 'disconnected'.
C30_AttemptCeiling ==
    /\ [](\A r \in Live :
            /\ r.attempt <= maxRetries
            /\ r.soFar <= maxRetries
            /\ FailedAttempts(r) < (maxRetries + 1) * (maxRetries + 1))
    /\ (pipes # EmptyBag) ~> Quiescent

\* Witness of C30: the channel is at rest after its last attempt failed,
\* close() not having been called.
C30_Witness == Quiescent /\ ~isClosed

----------------------------------------------------------------------------
(* Properties of reconnection, closing and sending *)

\* Copies of pipeline r in the bag B, referenced by socket$ or not.
Copies(r, B) ==
    CopiesIn([r EXCEPT !.cur = TRUE], B) + CopiesIn([r EXCEPT !.cur = FALSE], B)

\* The pipelines whose transport attempt the step starts.
StartedAttempts ==
    { r \in BagToSet(pipes') :
        r.sock = "connecting" /\ Copies(r, pipes') > Copies(r, pipes) }

\* Pipeline r of the next state is pipeline q resuming after its delay timer,
\* started with at least the base delay, has fired.
ResumedAfterDelay(q, r) ==
    /\ q.timer
    /\ q.delay >= reconnectInterval
    /\ [r EXCEPT !.cur = q.cur] = [q EXCEPT !.timer = FALSE, !.sock = "connecting"]
    /\ Copies(q, pipes') < Copies(q, pipes)

\* C31: every automatic reconnection waits the backoff delay.  A transport
\* attempt that a step starts is the one initialize() makes (attempt 0, no
\* error seen), or it follows a delay timer of at least the base delay, be
\* the reconnection triggered by an error or by an unexpected clean closure.
C31_BackoffEveryReconnect ==
    [][ \A r \in StartedAttempts :
            \/ (r.attempt = 0 /\ r.soFar = 0)
            \/ \E q \in Live : ResumedAfterDelay(q, r) ]_vars

\* A transport event on an older pipeline: the step changes or ends a pipeline
\* r that socket$ does not reference, while socket$ references pipeline q.
OlderActsBeside(r, q) ==
    /\ ~r.cur
    /\ q.cur
    /\ CopiesIn(r, pipes') < CopiesIn(r, pipes)

\* At most one pipeline is alive.
OnePipeline == BagCardinality(pipes) <= 1

\* No step on an older pipeline takes the handle from the newer one or starts
\* a connect() beside it.
TeardownSpares ==
    \A r, q \in Live :
        OlderActsBeside(r, q) =>
            /\ CopiesIn(q, pipes') >= CopiesIn(q, pipes)
            /\ \A n \in StartedAttempts : n.soFar # 0

\* C32: single transport per channel.  Whatever the interleaving of
\* initialize(), close() and transport events (close() followed by
\* initialize() before the old transport reported its closure included), at
\* most one pipeline (transport and subscription) is alive, and the teardown
\* of an older pipeline neither clears the handle of a newer one nor starts a
\* reconnection beside it.
C32_SingleTransport == []OnePipeline /\ [][TeardownSpares]_vars

\* C33: after close() the connection state stays 'disconnected' until
\* initialize() is called again.  isClosed is true exactly from close() to the
\* next connect(); during that time no event of the closed connection (a
\* message, a retry timer, the closure report) makes the state 'connected' or
\* 'connecting'.
C33_DisconnectedAfterClose == isClosed => connectionStatus = "disconnected"

\* sendMessage would return false: the channel references no transport.  The
\* handle is dropped by close() and by the finalize that gives up.
Refusing == ~HasSocket

\* The step is a call of initialize(): it adds a pipeline as connect(0) makes it.
InitializeStep == FreshIn(pipes') > FreshIn(pipes)

\* C34: after close() has returned, and after the retry budget is exhausted,
\* sendMessage returns false and hands nothing to a transport until
\* initialize() is called again: a closed channel references no transport, a
\* channel that references none gets one only by initialize(), and
\* sendMessage returns true only when it handed the message to the transport
\* referenced.
C34_RefusedUntilInitialize ==
    /\ [](isClosed => Refusing)
    /\ [][ (Refusing /\ ~Refusing') => InitializeStep ]_vars
    /\ [][ returned' = "true" => ~Refusing ]_vars

----------------------------------------------------------------------------
(* Properties of sendRequest on a channel that cannot send *)

\* The step is a call of sendRequest: in RequestSpec no other step leaves a
\* value returned by sendMessage.
SendRequestStep == returned' # "none" /\ request' # NoRequest

----------------------------------------------------------------------------
(* Properties of the order of the answers *)

\* The message is a get_history answer that carries a sequence.
CarriesSequence(msg) == ~msg.isNull /\ msg.action = "get_history" /\ msg.isArray

\* C36: last answer wins.  H always reflects the most recently received
\* get_history answer that carried a sequence: when the latest message of the
\* response channel is such an answer, H holds exactly its valid points,
\* whatever its request_id and whatever the order in which the requests were
\* sent; a message that carries no sequence leaves H as it was.
C36_LastAnswerWins ==
    /\ [](CarriesSequence(answer) =>
            \A valid \in { ValidPoints(answer.data) } :
                /\ Range(dummyBuffer) = Range(valid)
                /\ dummyHashSet = Keys(valid)
                /\ Len(dummyBuffer) = Cardinality(dummyHashSet))
    /\ [][ ~CarriesSequence(answer') => dummyBuffer' = dummyBuffer ]_vars

\* Witness of C36: two requests were sent and both answered, the answer to
\* the first one arriving last, and H holds its two points.
C36_Witness ==
    /\ Len(sentOrder) = 2
    /\ pending = {}
    /\ answer.request_id = sentOrder[1]
    /\ CarriesSequence(answer)
    /\ Len(dummyBuffer) = 2

----------------------------------------------------------------------------
(* Properties of the cached latest message *)

\* C37: the cached latest message is never cleared.  Only the arrival of a
\* message changes latestMessage$: no disconnect, reconnect, retry exhaustion
\* or close() does (none of the steps that change the pipelines, the closed
\* flag, or leave the state other than 'connected'), and an observer that
\* subscribes afterwards is delivered the message received last.
C37_LatestNeverCleared ==
    [][ /\ latestMessage' # latestMessage =>
               /\ pipes' = pipes
               /\ isClosed' = isClosed
               /\ connectionStatus' = "connected"
        /\ \A o \in Attaching : observers'[o] = << NextOf(latestMessage') >> ]_vars

\* Witness of C37: after close(), every pipeline gone and the state
\* 'disconnected', an observer has just subscribed and was delivered the
\* message received before.
C37_Witness ==
    /\ isClosed
    /\ pipes = EmptyBag
    /\ connectionStatus = "disconnected"
    /\ latestMessage \in Messages
    /\ \E o \in DOMAIN observers :
           o[1] = "onMessage" /\ observers[o] = << NextOf(latestMessage) >>

----------------------------------------------------------------------------
(* Properties of the identity indexes and of the rebuild *)

\* The index is exactly the set of identity keys of the buffer, and no two
\* points of the buffer share a key.
IndexOf(buffer, index) ==
    /\ index = Keys(buffer)
    /\ Len(buffer) = Cardinality(index)

\* C38: index consistency.  Between buffer operations dummyHashSet is exactly
\* the set of identity keys of the points of H and realtimeHashSet that of
\* the points of L, and neither H nor L holds two points with the same key.
C38_IndexConsistency ==
    /\ IndexOf(dummyBuffer, dummyHashSet)
    /\ IndexOf(realtimeBuffer, realtimeHashSet)

\* Witness of C38: H holds two points and L at least two, one of them with
\* the key of a point of H, after records with equal keys were offered.
C38_Witness ==
    /\ Len(dummyBuffer) = 2
    /\ Len(realtimeBuffer) >= 2
    /\ dummyHashSet \cap realtimeHashSet # {}

\* The live points the rebuild admits past the cutover: all of L when H is
\* empty, else those it finds strictly newer than the last point of H.
Admitted ==
    IF dummyBuffer = << >>
    THEN realtimeBuffer
    ELSE FilterNewer(realtimeBuffer,
                     parseTimestamp(dummyBuffer[Len(dummyBuffer)].Timestamp))

\* C39: the de-duplication pass of the rebuild never removes a point.  In
\* every reachable state the rebuild gives an M whose length is the length of
\* H plus the number of live points admitted past the cutover (the length of
\* L when H is empty): no admitted live point shares a key with a point of H.
C39_DedupRemovesNothing ==
    Len(Merged) = Len(dummyBuffer) + Len(Admitted)

----------------------------------------------------------------------------
(* Properties of the sorted insertion *)

\* The lower bound of the point in the buffer: the number of leading elements
\* whose parsed timestamp is strictly smaller than the point's, which is the
\* index (0-based) of the first element that is not.
LowerBound(buffer, point) ==
    Cardinality({ i \in DOMAIN buffer :
                    \A j \in 1..i : SpecTime(buffer[j]) < SpecTime(point) })

\* The points appendLive may hand to insertSorted.
LivePoints == { Normalized(d) : d \in { g \in GpsRecords : g.shape = "ok" } }

\* C40: insertSorted is a lower-bound insertion.  For every reachable live
\* buffer and every point, the result is the buffer with the point spliced in
\* at the lower bound: every element before it has a strictly smaller parsed
\* timestamp, it stands before every element with an equal one, the other
\* elements keep their order and the length grows by one.
C40_LowerBoundInsertion ==
    \A point \in LivePoints :
        insertSorted(realtimeBuffer, point)
            = Splice(realtimeBuffer, LowerBound(realtimeBuffer, point), point)

====
